---- MODULE Spec2Model ----
(***************************************************************************)
(* Model of sensor_synchronization.py: a control thread (main) that puts   *)
(* the simulator in synchronous mode, spawns a rig of sensors whose        *)
(* callbacks push (data, name) pairs into one shared Queue, and then loops *)
(* tick -> collect one queue item per sensor_list entry (1.0 s timeout     *)
(* each) -> save -> reposition, with a finally block for the cleanup.      *)
(* Lengths are in tenths of a metre so that distance_dict is integral.     *)
(***************************************************************************)
EXTENDS Integers, Sequences, FiniteSets, TLC

VARIABLES
    pc,                \* position of the control thread in main()/__main__
    exc,               \* exception in flight ("none" when there is none)
    bound,             \* local names of main() that have been assigned
    world_settings,    \* the simulator's current settings
    original_settings, \* main(): original_settings
    applied,           \* the world.apply_settings calls made: line and argument
    weather,           \* the simulator's current weather preset
    frame,             \* the simulator's frame counter
    spawned,           \* number of actors world.spawn_actor has returned
    listening,         \* ids of the actors with a registered listen callback
    sensor_list,       \* main(): sensor_list
    sensor_queue,      \* main(): sensor_queue (FIFO of (sensor_data, sensor_name))
    pending,           \* sensor data produced by a tick, callback not yet run
    w_frame,           \* main(): w_frame
    spawn_point,       \* main(): spawn_point (the reference pose)
    i,                 \* position of the running for loop in sensor_list
    s_frame,           \* main(): s_frame (the sensor data last taken)
    sensoer_name,      \* main(): sensoer_name
    transform,         \* actor id -> the transform last set on the actor
    destroyed,         \* actor id -> number of destroy() calls on the actor
    disk,              \* file name -> [data, writes] written by save_to_disk
    printed,           \* the last line the control thread printed
    taken,             \* the (data, name) pairs got from the queue in this tick
    moved,             \* actor ids set_transform was applied to in this tick
    gets,              \* queue.get calls of this tick that have returned or raised
    timeouts,          \* queue.get calls of this tick that raised Empty
    rig,               \* the (name, location_id) pairs written at lines 103-135
    lag                \* samples produced but not taken when the tick was issued

vars == << pc, exc, bound, world_settings, original_settings, applied, weather,
           frame, spawned, listening, sensor_list, sensor_queue, pending,
           w_frame, spawn_point, i, s_frame, sensoer_name, transform,
           destroyed, disk, printed, taken, moved, gets, timeouts, rig, lag >>

----------------------------------------------------------------------------
(* Bounds of the model *)

\* number of sensors of the rig that are spawned (a prefix of the seven)
NumSensors == 2
\* number of world.tick() calls explored
MaxTicks == 2

----------------------------------------------------------------------------
(* The rig: lines 102-135, in spawn order *)

Rig ==
    << [name |-> "depth",     location_id |-> 0],
       [name |-> "right_cam", location_id |-> 0],
       [name |-> "left_1",    location_id |-> 1],
       [name |-> "left_2",    location_id |-> 2],
       [name |-> "left_3",    location_id |-> 3],
       [name |-> "left_4",    location_id |-> 4],
       [name |-> "left_5",    location_id |-> 5] >>

Min(a, b) == IF a < b THEN a ELSE b

RigSize == Min(NumSensors, Len(Rig))

ActorIds == 1 .. RigSize

\* the name the lambda of actor k passes to sensor_callback
NameOf(k) == Rig[k].name

SensorNames == { NameOf(k) : k \in ActorIds }

\* a Python value: an actor handle, and the tuple appended to sensor_list
Actor(k) == [type |-> "Actor", id |-> k]
Tuple(k, l) == [type |-> "tuple", actor |-> k, location_id |-> l]

\* hasattr(v, "destroy"): only carla actors have the method
HasDestroy(v) == v.type = "Actor"

----------------------------------------------------------------------------
(* Poses and get_transform *)

Vec(x, y, z) == [x |-> x, y |-> y, z |-> z]

Rotation(p, y, r) == [pitch |-> p, yaw |-> y, roll |-> r]

\* carla.Transform(location): the rotation defaults to zero
Transform(loc) == [location |-> loc, rotation |-> Rotation(0, 0, 0)]

\* carla.Transform()
DefaultTransform == Transform(Vec(0, 0, 0))

\* Transform.get_right_vector() for a level pose (pitch = roll = 0) whose
\* yaw is a multiple of 90 degrees: (-sin yaw, cos yaw, 0)
RightVector(t) ==
    CASE t.rotation.yaw = 0   -> Vec(0, 1, 0)
      [] t.rotation.yaw = 90  -> Vec(0 - 1, 0, 0)
      [] t.rotation.yaw = 180 -> Vec(0, 0 - 1, 0)
      [] t.rotation.yaw = 270 -> Vec(1, 0, 0)

\* distance_dict, in tenths
distance_dict == [l \in 0 .. 5 |-> CASE l = 0 -> 0 [] l = 1 -> 1 [] l = 2 -> 2
                                     [] l = 3 -> 3 [] l = 4 -> 5 [] l = 5 -> 7]

\* distance_dict[location_id] raises KeyError for an id that is no key
HasOffset(location_id) == location_id \in DOMAIN distance_dict

\* get_transform that builds the result from the reference pose, rotation
\* included
get_transform_KeepsRotation(one_transform, location_id) ==
    LET d     == distance_dict[location_id]
        right == RightVector(one_transform)
    IN  [location |-> Vec(one_transform.location.x + right.x * d,
                          one_transform.location.y + right.y * d,
                          one_transform.location.z + right.z * d),
         rotation |-> one_transform.rotation]

get_transform(one_transform, location_id) ==
    LET d     == distance_dict[location_id]
        right == RightVector(one_transform)
        delta == Vec(right.x * d, right.y * d, right.z * d)
    IN  Transform(Vec(one_transform.location.x + delta.x,
                      one_transform.location.y + delta.y,
                      one_transform.location.z + delta.z))

\* carla_map.get_spawn_points(): level poses of the map
SpawnPoints == { [location |-> Vec(0, 0, 0),   rotation |-> Rotation(0, 0, 0)],
                 [location |-> Vec(100, 50, 3), rotation |-> Rotation(0, 90, 0)] }

\* values of random.random() * 360 that are explored
Yaws == { 270 }

\* random.choice(get_spawn_points()) with its yaw overwritten
ReferencePoses ==
    { [location |-> p.location,
       rotation |-> Rotation(p.rotation.pitch, y, p.rotation.roll)] :
      p \in SpawnPoints, y \in Yaws }

----------------------------------------------------------------------------
(* Simulator settings and weather *)

Settings(sync, delta) == [synchronous_mode |-> sync, fixed_delta_seconds |-> delta]

\* settings the server may be found with (fixed_delta_seconds in tenths)
FoundSettings == { Settings(FALSE, 0) }

\* lines 81-85: a second copy of the settings with synchronous mode on
SyncSettings(s) == [s EXCEPT !.fixed_delta_seconds = 2, !.synchronous_mode = TRUE]

\* a call world.apply_settings(s) made by the statement at a line of main()
ApplyCall(line, s) == [line |-> line, settings |-> s]

WeatherPresets == { "ClearNoon", "HardRainNoon" }

\* the frame counter the server is found with
FoundFrame == 4

----------------------------------------------------------------------------
(* Samples and files *)

\* what a sensor hands to its callback at frame f: sensor_data.frame = f
Data(f, k) == [frame |-> f, sensor |-> k]

\* the pair sensor_callback puts on the queue
Item(d, n) == [sensor_data |-> d, sensor_name |-> n]

NoData == Data(0, 0)

\* '_six_out/' + sensoer_name + '/%08d' % w_frame
FileName(n, f) == << n, f >>

\* the state when main() enters its try block, whatever the rig written in it
Start ==
    /\ pc = "get_original_settings"
    /\ exc = "none"
    /\ bound = {}
    /\ world_settings \in FoundSettings
    /\ original_settings = Settings(FALSE, 0)
    /\ applied = << >>
    /\ weather = "ClearNoon"
    /\ frame = FoundFrame
    /\ spawned = 0
    /\ listening = {}
    /\ sensor_list = << >>
    /\ sensor_queue = << >>
    /\ pending = {}
    /\ w_frame = 0
    /\ spawn_point = DefaultTransform
    /\ i = 1
    /\ s_frame = NoData
    /\ sensoer_name = "none"
    /\ transform = [k \in {} |-> DefaultTransform]
    /\ destroyed = [k \in {} |-> 0]
    /\ disk = [f \in {} |-> NoData]
    /\ printed = "none"
    /\ taken = << >>
    /\ moved = << >>
    /\ gets = 0
    /\ timeouts = 0
    /\ lag = 0

Init ==
    /\ Start
    /\ rig = SubSeq(Rig, 1, RigSize)


----------------------------------------------------------------------------
(* Setup: lines 77-142 *)

Line(text, args) == [line |-> text, args |-> args]

\* lines 80-81: the settings are read (twice) before anything is changed
GetOriginalSettings ==
    /\ pc = "get_original_settings"
    /\ original_settings' = world_settings
    /\ bound' = bound \cup {"original_settings", "settings"}
    /\ pc' = "apply_settings"
    /\ UNCHANGED << exc, world_settings, applied, weather, frame, spawned,
                    listening, sensor_list, sensor_queue, pending, w_frame,
                    spawn_point, i, s_frame, sensoer_name, transform,
                    destroyed, disk, printed, taken, moved, gets, timeouts >>
    /\ UNCHANGED << rig, lag >>

\* lines 84-86: synchronous mode is applied
ApplySynchronousMode ==
    /\ pc = "apply_settings"
    /\ world_settings' = SyncSettings(original_settings)
    /\ applied' = Append(applied, ApplyCall(86, SyncSettings(original_settings)))
    /\ pc' = "create_sensor_list"
    /\ UNCHANGED << exc, bound, original_settings, weather, frame, spawned,
                    listening, sensor_list, sensor_queue, pending, w_frame,
                    spawn_point, i, s_frame, sensoer_name, transform,
                    destroyed, disk, printed, taken, moved, gets, timeouts >>
    /\ UNCHANGED << rig, lag >>

\* lines 87-100: map, queue, blueprints, and the empty sensor_list
CreateSensorList ==
    /\ pc = "create_sensor_list"
    /\ sensor_queue' = << >>
    /\ sensor_list' = << >>
    /\ bound' = bound \cup {"sensor_queue", "sensor_list"}
    /\ pc' = "spawn_actor"
    /\ UNCHANGED << exc, world_settings, original_settings, applied, weather,
                    frame, spawned, listening, pending, w_frame, spawn_point,
                    i, s_frame, sensoer_name, transform, destroyed, disk,
                    printed, taken, moved, gets, timeouts >>
    /\ UNCHANGED << rig, lag >>

\* lines 102, 107, ..., 132: world.spawn_actor(bp, carla.Transform())
SpawnActor ==
    /\ pc = "spawn_actor"
    /\ spawned < RigSize
    /\ spawned' = spawned + 1
    /\ transform' = [k \in 1 .. spawned + 1 |->
                        IF k <= spawned THEN transform[k] ELSE DefaultTransform]
    /\ destroyed' = [k \in 1 .. spawned + 1 |->
                        IF k <= spawned THEN destroyed[k] ELSE 0]
    /\ pc' = "listen"
    /\ UNCHANGED << exc, bound, world_settings, original_settings, applied,
                    weather, frame, listening, sensor_list, sensor_queue,
                    pending, w_frame, spawn_point, i, s_frame, sensoer_name,
                    disk, printed, taken, moved, gets, timeouts >>
    /\ UNCHANGED << rig, lag >>

\* lines 103-105, ..., 133-135: listen(callback) and sensor_list.append
ListenAndAppend ==
    /\ pc = "listen"
    /\ listening' = listening \cup {spawned}
    /\ sensor_list' = Append(sensor_list, Tuple(spawned, rig[spawned].location_id))
    /\ pc' = IF spawned = RigSize THEN "choose_spawn_point" ELSE "spawn_actor"
    /\ UNCHANGED << exc, bound, world_settings, original_settings, applied,
                    weather, frame, spawned, sensor_queue, pending, w_frame,
                    spawn_point, i, s_frame, sensoer_name, transform,
                    destroyed, disk, printed, taken, moved, gets, timeouts >>
    /\ UNCHANGED << rig, lag >>

\* lines 138-139: the reference pose of the initial positioning pass
ChooseSpawnPoint ==
    /\ pc = "choose_spawn_point"
    /\ spawn_point' \in ReferencePoses
    /\ i' = 1
    /\ pc' = "init_transform"
    /\ UNCHANGED << exc, bound, world_settings, original_settings, applied,
                    weather, frame, spawned, listening, sensor_list,
                    sensor_queue, pending, w_frame, s_frame, sensoer_name,
                    transform, destroyed, disk, printed, taken, moved, gets,
                    timeouts >>
    /\ UNCHANGED << rig, lag >>

\* sensor.set_transform(new_location) on the actor of a sensor_list entry
SetTransform(entry, new_location) ==
    [transform EXCEPT ![entry.actor] = new_location]

\* InitTransform with distance_dict.get(location_id, 0): an unknown id is
\* given a zero offset
InitTransform_DefaultsToZero ==
    /\ pc = "init_transform"
    /\ LET entry == sensor_list[i]
           id    == IF HasOffset(entry.location_id) THEN entry.location_id ELSE 0
       IN  transform' = SetTransform(entry, get_transform(spawn_point, id))
    /\ i' = i + 1
    /\ pc' = IF i = Len(sensor_list) THEN "tick" ELSE "init_transform"
    /\ UNCHANGED << exc, bound, world_settings, original_settings, applied,
                    weather, frame, spawned, listening, sensor_list,
                    sensor_queue, pending, w_frame, spawn_point, s_frame,
                    sensoer_name, destroyed, disk, printed, taken, moved,
                    gets, timeouts >>
    /\ UNCHANGED << rig, lag >>

\* lines 140-142: one iteration of the initial positioning loop
InitTransform ==
    /\ pc = "init_transform"
    /\ LET entry == sensor_list[i] IN
       IF HasOffset(entry.location_id)
       THEN /\ transform' = SetTransform(entry,
                                get_transform(spawn_point, entry.location_id))
            /\ i' = i + 1
            /\ pc' = IF i = Len(sensor_list) THEN "tick" ELSE "init_transform"
            /\ exc' = exc
       ELSE /\ exc' = "KeyError"
            /\ pc' = "finally_apply_settings"
            /\ UNCHANGED << transform, i >>
    /\ UNCHANGED << bound, world_settings, original_settings, applied, weather,
                    frame, spawned, listening, sensor_list, sensor_queue,
                    pending, w_frame, spawn_point, s_frame, sensoer_name,
                    destroyed, disk, printed, taken, moved, gets, timeouts >>
    /\ UNCHANGED << rig, lag >>


----------------------------------------------------------------------------
(* The sensors' side: sensor_callback, lines 37-40 *)

\* the listen callback of actor d.sensor runs while the process lives:
\* queue.put((data, name))
sensor_callback(d) ==
    /\ pc # "exit"
    /\ d \in pending
    /\ sensor_queue' = Append(sensor_queue, Item(d, NameOf(d.sensor)))
    /\ pending' = pending \ {d}
    /\ UNCHANGED << pc, exc, bound, world_settings, original_settings, applied,
                    weather, frame, spawned, listening, sensor_list, w_frame,
                    spawn_point, i, s_frame, sensoer_name, transform,
                    destroyed, disk, printed, taken, moved, gets, timeouts >>
    /\ UNCHANGED << rig, lag >>

----------------------------------------------------------------------------
(* Main loop: lines 145-177 *)

\* Tick that empties the queue before the new frame's collection
Tick_DrainsQueue ==
    /\ pc = "tick"
    /\ frame < FoundFrame + MaxTicks
    /\ frame' = frame + 1
    /\ w_frame' = frame + 1
    /\ pending' = pending \cup { Data(frame + 1, k) : k \in listening }
    /\ spawn_point' \in ReferencePoses
    /\ IF (frame + 1) % 5 = 0
       THEN /\ weather' \in WeatherPresets
            /\ printed' = Line("new weather", << >>)
       ELSE /\ weather' = weather
            /\ printed' = Line("World's frame: %d", << frame + 1 >>)
    /\ i' = 1
    /\ taken' = << >>
    /\ moved' = << >>
    /\ gets' = 0
    /\ timeouts' = 0
    /\ pc' = "get"
    /\ sensor_queue' = << >>
    /\ UNCHANGED << exc, bound, world_settings, original_settings, applied,
                    spawned, listening, sensor_list, s_frame,
                    sensoer_name, transform, destroyed, disk >>
    /\ lag' = Cardinality(pending) + Len(sensor_queue)
    /\ rig' = rig

\* lines 147-157: tick, frame id, reference pose, weather every 5 frames;
\* every listening sensor produces its data of the new frame
Tick ==
    /\ pc = "tick"
    /\ frame < FoundFrame + MaxTicks
    /\ frame' = frame + 1
    /\ w_frame' = frame + 1
    /\ pending' = pending \cup { Data(frame + 1, k) : k \in listening }
    /\ spawn_point' \in ReferencePoses
    /\ IF (frame + 1) % 5 = 0
       THEN /\ weather' \in WeatherPresets
            /\ printed' = Line("new weather", << >>)
       ELSE /\ weather' = weather
            /\ printed' = Line("World's frame: %d", << frame + 1 >>)
    /\ i' = 1
    /\ taken' = << >>
    /\ moved' = << >>
    /\ gets' = 0
    /\ timeouts' = 0
    /\ pc' = "get"
    /\ UNCHANGED << exc, bound, world_settings, original_settings, applied,
                    spawned, listening, sensor_list, sensor_queue, s_frame,
                    sensoer_name, transform, destroyed, disk >>
    /\ lag' = Cardinality(pending) + Len(sensor_queue)
    /\ rig' = rig

\* Get on a LIFO queue: the newest item is returned
Get_TakesNewest ==
    /\ pc = "get"
    /\ sensor_queue # << >>
    /\ LET item == sensor_queue[Len(sensor_queue)] IN
       /\ s_frame' = item.sensor_data
       /\ sensoer_name' = item.sensor_name
       /\ sensor_queue' = SubSeq(sensor_queue, 1, Len(sensor_queue) - 1)
       /\ printed' = Line("    Frame: %d   Sensor: %s",
                          << item.sensor_data.frame, item.sensor_name >>)
       /\ taken' = Append(taken, item)
    /\ gets' = gets + 1
    /\ pc' = "save_to_disk"
    /\ UNCHANGED << exc, bound, world_settings, original_settings, applied,
                    weather, frame, spawned, listening, sensor_list, pending,
                    w_frame, spawn_point, i, transform, destroyed, disk, moved,
                    timeouts >>
    /\ UNCHANGED << rig, lag >>

\* lines 165-168: sensor_queue.get(True, 1.0) returns the oldest item
Get ==
    /\ pc = "get"
    /\ sensor_queue # << >>
    /\ s_frame' = Head(sensor_queue).sensor_data
    /\ sensoer_name' = Head(sensor_queue).sensor_name
    /\ sensor_queue' = Tail(sensor_queue)
    /\ printed' = Line("    Frame: %d   Sensor: %s",
                       << Head(sensor_queue).sensor_data.frame,
                          Head(sensor_queue).sensor_name >>)
    /\ taken' = Append(taken, Head(sensor_queue))
    /\ gets' = gets + 1
    /\ pc' = "save_to_disk"
    /\ UNCHANGED << exc, bound, world_settings, original_settings, applied,
                    weather, frame, spawned, listening, sensor_list, pending,
                    w_frame, spawn_point, i, transform, destroyed, disk, moved,
                    timeouts >>
    /\ UNCHANGED << rig, lag >>

\* Timeout as a per-sensor skip: the for loop goes on to the next entry
Timeout_SkipsSensor ==
    /\ pc = "get"
    /\ sensor_queue = << >>
    /\ printed' = Line("    Some of the sensor information is missed", << >>)
    /\ gets' = gets + 1
    /\ timeouts' = timeouts + 1
    /\ i' = i + 1
    /\ pc' = IF i = Len(sensor_list) THEN "tick" ELSE "get"
    /\ UNCHANGED << exc, bound, world_settings, original_settings, applied,
                    weather, frame, spawned, listening, sensor_list,
                    sensor_queue, pending, w_frame, spawn_point, s_frame,
                    sensoer_name, transform, destroyed, disk, taken, moved >>
    /\ UNCHANGED << rig, lag >>

\* Timeout that re-arms the wait for the same entry
Timeout_Retries ==
    /\ pc = "get"
    /\ sensor_queue = << >>
    /\ printed' = Line("    Some of the sensor information is missed", << >>)
    /\ gets' = gets + 1
    /\ UNCHANGED << pc, exc, bound, world_settings, original_settings, applied,
                    weather, frame, spawned, listening, sensor_list,
                    sensor_queue, pending, w_frame, spawn_point, i, s_frame,
                    sensoer_name, transform, destroyed, disk, taken, moved,
                    timeouts >>
    /\ UNCHANGED << rig, lag >>

\* Timeout without the except clause: Empty leaves the loop
Timeout_Escalates ==
    /\ pc = "get"
    /\ sensor_queue = << >>
    /\ gets' = gets + 1
    /\ timeouts' = timeouts + 1
    /\ exc' = "Empty"
    /\ pc' = "finally_apply_settings"
    /\ UNCHANGED << bound, world_settings, original_settings, applied,
                    weather, frame, spawned, listening, sensor_list,
                    sensor_queue, pending, w_frame, spawn_point, i, s_frame,
                    sensoer_name, transform, destroyed, disk, printed, taken,
                    moved >>
    /\ UNCHANGED << rig, lag >>

\* lines 166, 176-177: the queue stayed empty for 1.0 s, get raises Empty,
\* the handler prints and the while loop starts over
Timeout ==
    /\ pc = "get"
    /\ sensor_queue = << >>
    /\ printed' = Line("    Some of the sensor information is missed", << >>)
    /\ gets' = gets + 1
    /\ timeouts' = timeouts + 1
    /\ pc' = "tick"
    /\ UNCHANGED << exc, bound, world_settings, original_settings, applied,
                    weather, frame, spawned, listening, sensor_list,
                    sensor_queue, pending, w_frame, spawn_point, i, s_frame,
                    sensoer_name, transform, destroyed, disk, taken, moved >>
    /\ UNCHANGED << rig, lag >>

\* SaveToDisk that names the file after the entry being iterated
SaveToDisk_RegistryKey ==
    /\ pc = "save_to_disk"
    /\ LET file_name == FileName(NameOf(sensor_list[i].actor), w_frame)
           writes    == IF file_name \in DOMAIN disk
                        THEN disk[file_name].writes + 1 ELSE 1
       IN  disk' = [f \in DOMAIN disk \cup {file_name} |->
                       IF f = file_name
                       THEN [data |-> s_frame, writes |-> writes]
                       ELSE disk[f]]
    /\ pc' = "set_transform"
    /\ UNCHANGED << exc, bound, world_settings, original_settings, applied,
                    weather, frame, spawned, listening, sensor_list,
                    sensor_queue, pending, w_frame, spawn_point, i, s_frame,
                    sensoer_name, transform, destroyed, printed, taken, moved,
                    gets, timeouts >>
    /\ UNCHANGED << rig, lag >>

\* lines 170-171: s_frame.save_to_disk(file_name)
SaveToDisk ==
    /\ pc = "save_to_disk"
    /\ LET file_name == FileName(sensoer_name, w_frame)
           writes    == IF file_name \in DOMAIN disk
                        THEN disk[file_name].writes + 1 ELSE 1
       IN  disk' = [f \in DOMAIN disk \cup {file_name} |->
                       IF f = file_name
                       THEN [data |-> s_frame, writes |-> writes]
                       ELSE disk[f]]
    /\ pc' = "set_transform"
    /\ UNCHANGED << exc, bound, world_settings, original_settings, applied,
                    weather, frame, spawned, listening, sensor_list,
                    sensor_queue, pending, w_frame, spawn_point, i, s_frame,
                    sensoer_name, transform, destroyed, printed, taken, moved,
                    gets, timeouts >>
    /\ UNCHANGED << rig, lag >>

\* Reposition that moves the sensor the sample came from, not the entry
\* being iterated
Reposition_BySampleIdentity ==
    /\ pc = "set_transform"
    /\ LET entry == sensor_list[CHOOSE j \in 1 .. Len(sensor_list) :
                                    NameOf(sensor_list[j].actor) = sensoer_name]
       IN
       /\ transform' = SetTransform(entry,
                           get_transform(spawn_point, entry.location_id))
       /\ moved' = Append(moved, entry.actor)
       /\ i' = i + 1
       /\ pc' = IF i = Len(sensor_list) THEN "tick" ELSE "get"
    /\ UNCHANGED << exc, bound, world_settings, original_settings, applied,
                    weather, frame, spawned, listening, sensor_list,
                    sensor_queue, pending, w_frame, spawn_point, s_frame,
                    sensoer_name, destroyed, disk, printed, taken, gets,
                    timeouts >>
    /\ UNCHANGED << rig, lag >>

\* lines 173-174 and the loop header 165: the entry being iterated is moved,
\* then the for loop advances or is exhausted
Reposition ==
    /\ pc = "set_transform"
    /\ LET entry == sensor_list[i] IN
       IF HasOffset(entry.location_id)
       THEN /\ transform' = SetTransform(entry,
                                get_transform(spawn_point, entry.location_id))
            /\ moved' = Append(moved, entry.actor)
            /\ i' = i + 1
            /\ pc' = IF i = Len(sensor_list) THEN "tick" ELSE "get"
            /\ exc' = exc
       ELSE /\ exc' = "KeyError"
            /\ pc' = "finally_apply_settings"
            /\ UNCHANGED << transform, moved, i >>
    /\ UNCHANGED << bound, world_settings, original_settings, applied, weather,
                    frame, spawned, listening, sensor_list, sensor_queue,
                    pending, w_frame, spawn_point, s_frame, sensoer_name,
                    destroyed, disk, printed, taken, gets, timeouts >>
    /\ UNCHANGED << rig, lag >>


----------------------------------------------------------------------------
(* Exceptions entering the try block: lines 77-177 *)

TryPcs == { "get_original_settings", "apply_settings", "create_sensor_list",
            "spawn_actor", "listen", "choose_spawn_point", "init_transform",
            "tick", "get", "save_to_disk", "set_transform" }

\* the statements that call into the simulator (sensor_queue.get does not)
SimulatorPcs == TryPcs \ { "get" }

\* the statement at pc is abandoned with exception e and the finally block starts
Raise(e) ==
    /\ exc' = e
    /\ pc' = "finally_apply_settings"
    /\ UNCHANGED << bound, world_settings, original_settings, applied, weather,
                    frame, spawned, listening, sensor_list, sensor_queue,
                    pending, w_frame, spawn_point, i, s_frame, sensoer_name,
                    transform, destroyed, disk, printed, taken, moved, gets,
                    timeouts >>
    /\ UNCHANGED << rig, lag >>

\* Ctrl-C while the control thread is anywhere inside the try block
Interrupt ==
    /\ pc \in TryPcs
    /\ Raise("KeyboardInterrupt")

\* a simulator call or save_to_disk raises
Fault ==
    /\ pc \in SimulatorPcs
    /\ Raise("RuntimeError")

----------------------------------------------------------------------------
(* Cleanup: lines 179-182, and the caller: lines 185-189 *)

\* line 180: world.apply_settings(original_settings)
FinallyApplySettings ==
    /\ pc = "finally_apply_settings"
    /\ IF "original_settings" \in bound
       THEN /\ world_settings' = original_settings
            /\ applied' = Append(applied, ApplyCall(180, original_settings))
            /\ i' = 1
            /\ pc' = "finally_destroy"
            /\ exc' = exc
       ELSE /\ exc' = "UnboundLocalError"
            /\ pc' = "raised"
            /\ UNCHANGED << world_settings, applied, i >>
    /\ UNCHANGED << bound, original_settings, weather, frame, spawned,
                    listening, sensor_list, sensor_queue, pending, w_frame,
                    spawn_point, s_frame, sensoer_name, transform, destroyed,
                    disk, printed, taken, moved, gets, timeouts >>
    /\ UNCHANGED << rig, lag >>

\* lines 181-182: for sensor in sensor_list: sensor.destroy()
FinallyDestroy ==
    /\ pc = "finally_destroy"
    /\ IF "sensor_list" \notin bound
       THEN /\ exc' = "UnboundLocalError"
            /\ pc' = "raised"
            /\ UNCHANGED << destroyed, i >>
       ELSE IF i > Len(sensor_list)
       THEN /\ pc' = "raised"
            /\ UNCHANGED << exc, destroyed, i >>
       ELSE LET sensor == sensor_list[i] IN
            IF HasDestroy(sensor)
            THEN /\ destroyed' = [destroyed EXCEPT ![sensor.id] = @ + 1]
                 /\ i' = i + 1
                 /\ UNCHANGED << pc, exc >>
            ELSE /\ exc' = "AttributeError"
                 /\ pc' = "raised"
                 /\ UNCHANGED << destroyed, i >>
    /\ UNCHANGED << bound, world_settings, original_settings, applied, weather,
                    frame, spawned, listening, sensor_list, sensor_queue,
                    pending, w_frame, spawn_point, s_frame, sensoer_name,
                    transform, disk, printed, taken, moved, gets, timeouts >>
    /\ UNCHANGED << rig, lag >>

\* lines 186-189: main() has raised; KeyboardInterrupt is reported, any other
\* exception ends the process with a traceback
ExitMain ==
    /\ pc = "raised"
    /\ IF exc = "KeyboardInterrupt"
       THEN /\ printed' = Line(" - Exited by user.", << >>)
            /\ exc' = "none"
       ELSE UNCHANGED << printed, exc >>
    /\ pc' = "exit"
    /\ UNCHANGED << bound, world_settings, original_settings, applied, weather,
                    frame, spawned, listening, sensor_list, sensor_queue,
                    pending, w_frame, spawn_point, i, s_frame, sensoer_name,
                    transform, destroyed, disk, taken, moved, gets, timeouts >>
    /\ UNCHANGED << rig, lag >>

----------------------------------------------------------------------------

Next ==
    \/ GetOriginalSettings
    \/ ApplySynchronousMode
    \/ CreateSensorList
    \/ SpawnActor
    \/ ListenAndAppend
    \/ ChooseSpawnPoint
    \/ InitTransform
    \/ Tick
    \/ Get
    \/ Timeout
    \/ SaveToDisk
    \/ Reposition
    \/ Interrupt
    \/ Fault
    \/ FinallyApplySettings
    \/ FinallyDestroy
    \/ ExitMain
    \/ \E d \in pending : sensor_callback(d)

Spec == Init /\ [][Next]_vars


\* the control thread never stays blocked: a get returns within its 1.0 s
\* timeout and the statements of the loop body run to completion
LiveSpec == Spec /\ WF_vars(Get \/ Timeout \/ SaveToDisk \/ Reposition)

\* reference poses for get_transform alone: level poses on a small grid,
\* every yaw that is a multiple of 90 degrees
PlannerPoses ==
    { [location |-> Vec(x, y, z), rotation |-> Rotation(0, yaw, 0)] :
      x \in {0, 100}, y \in {0, 50}, z \in {0, 3}, yaw \in {0, 90, 180, 270} }

\* one sensor with any location id of distance_dict, spawned and listening,
\* about to be positioned from any of these reference poses (line 141)
PlannerInit ==
    /\ pc = "init_transform"
    /\ exc = "none"
    /\ bound = {"original_settings", "settings", "sensor_queue", "sensor_list"}
    /\ original_settings \in FoundSettings
    /\ world_settings = SyncSettings(original_settings)
    /\ applied = << ApplyCall(86, SyncSettings(original_settings)) >>
    /\ weather = "ClearNoon"
    /\ frame = FoundFrame
    /\ spawned = 1
    /\ listening = {1}
    /\ \E id \in DOMAIN distance_dict :
          /\ rig = << [name |-> Rig[1].name, location_id |-> id] >>
          /\ sensor_list = << Tuple(1, id) >>
    /\ sensor_queue = << >>
    /\ pending = {}
    /\ w_frame = 0
    /\ spawn_point \in PlannerPoses
    /\ i = 1
    /\ s_frame = NoData
    /\ sensoer_name = "none"
    /\ transform = << DefaultTransform >>
    /\ destroyed = << 0 >>
    /\ disk = [f \in {} |-> NoData]
    /\ printed = "none"
    /\ taken = << >>
    /\ moved = << >>
    /\ gets = 0
    /\ timeouts = 0
    /\ lag = 0

\* the call new_location = get_transform(spawn_point, location_id) and the
\* set_transform that stores its result
PlannerNext == InitTransform

PlannerSpec == PlannerInit /\ [][PlannerNext]_vars

\* location ids that are no key of distance_dict
UnknownIds == { 6 }

\* the rig of lines 102-135 with any of its location ids replaced by an
\* unknown one
ConfigRigs ==
    { [k \in 1 .. RigSize |->
          [name |-> Rig[k].name,
           location_id |-> IF k \in B THEN u ELSE Rig[k].location_id]] :
      B \in SUBSET (1 .. RigSize), u \in UnknownIds }

ConfigInit ==
    /\ Start
    /\ rig \in ConfigRigs

\* main() run on each of these rigs
ConfigSpec == ConfigInit /\ [][Next]_vars

----------------------------------------------------------------------------
(* Vocabulary of the properties *)

LoopBodyPcs == { "get", "save_to_disk", "set_transform" }

\* a tick has been issued and its collection is running or has ended
InTick == frame > FoundFrame /\ pc \in LoopBodyPcs \cup {"tick"}

\* the collection of the current tick has ended (loop exhausted or Empty)
CollectionEnded == frame > FoundFrame /\ pc = "tick"

\* the identities registered in sensor_list
ExpectedNames == { NameOf(sensor_list[j].actor) : j \in 1 .. Len(sensor_list) }

\* identities whose sample was taken from the queue in this tick
Satisfied == { taken[j].sensor_name : j \in 1 .. Len(taken) }

Missing == ExpectedNames \ Satisfied

MovedActors == { moved[j] : j \in 1 .. Len(moved) }

\* world.apply_settings calls made by the finally block
RestoreCalls == { j \in 1 .. Len(applied) : applied[j].line = 180 }

----------------------------------------------------------------------------
(* C1 .. C10 *)

\* C1: in every tick, satisfied (identities taken from the queue in this
\* tick) and missing partition the expected set: they are disjoint, their
\* union is the expected set, and no identity is satisfied twice.
C1_Partition ==
    InTick =>
        /\ Satisfied \subseteq ExpectedNames
        /\ Satisfied \cap Missing = {}
        /\ Satisfied \cup Missing = ExpectedNames
        /\ Cardinality(Satisfied) = Len(taken)

\* C2: every sample the collection loop takes during the tick with frame
\* number w_frame was produced for that frame.
C2_NoStaleSample ==
    InTick => \A j \in 1 .. Len(taken) : taken[j].sensor_data.frame = w_frame

\* every listening sensor has pushed its sample of the current frame, and no
\* wait of this tick has expired
AllRespondedInTime ==
    /\ timeouts = 0
    /\ \A d \in pending : d.frame # w_frame

\* C3: when every producer pushes its sample of the tick in time, the
\* collection ends with nothing missing and with exactly one sample of this
\* tick per registered identity.
C3_FullTick ==
    (CollectionEnded /\ AllRespondedInTime) =>
        /\ Missing = {}
        /\ Satisfied = ExpectedNames
        /\ Len(taken) = Cardinality(ExpectedNames)
        /\ \A j \in 1 .. Len(taken) : taken[j].sensor_data.frame = w_frame

\* C4: when an iteration's collection has ended, complete or on a timeout,
\* every sensor of sensor_list has been given the transform computed from
\* this iteration's reference pose and its offset.
C4_AllRepositioned ==
    CollectionEnded =>
        \A j \in 1 .. Len(sensor_list) :
            /\ sensor_list[j].actor \in MovedActors
            /\ transform[sensor_list[j].actor]
                   = get_transform(spawn_point, sensor_list[j].location_id)

\* C5: once main() has stopped after the sensors were spawned, destroy has
\* been called exactly once on every spawned actor.
C5_DestroyedOnce ==
    (pc = "exit" /\ spawned = RigSize) =>
        \A k \in 1 .. spawned : destroyed[k] = 1


\* C6: whenever main() has stopped, by an interrupt or a fault anywhere in
\* the try block, the finally block has called apply_settings exactly once,
\* with the settings the server was found with.
C6_SettingsRestored ==
    pc \in {"raised", "exit"} =>
        /\ Cardinality(RestoreCalls) = 1
        /\ \A j \in RestoreCalls : applied[j].settings \in FoundSettings
        /\ world_settings \in FoundSettings

\* C7: the first get of a tick that raises Empty ends the tick's collection:
\* at most one wait times out per tick, no get follows it in that tick, and
\* the identities not satisfied at that moment stay missing.
C7_TimeoutAborts ==
    /\ [](InTick => /\ timeouts <= 1
                    /\ timeouts = 1 =>
                          /\ pc = "tick"
                          /\ gets = Len(taken) + 1
                          /\ Len(taken) < Len(sensor_list)
                          /\ Missing # {})
    /\ [][(timeouts = 1 /\ timeouts' = 1) =>
              (gets' = gets /\ taken' = taken /\ moved' = moved)]_vars

C7_Witness ==
    /\ CollectionEnded
    /\ timeouts = 1
    /\ Len(taken) = 1
    /\ \E d \in pending : d.frame = w_frame

\* C8: a tick's collection makes at most |sensor_list| gets, each of which
\* returns a sample or times out, and the control thread always leaves the
\* collection: back to the top of the loop, unless an interrupt or a fault
\* ends the run.
C8_BoundedCollection ==
    /\ [](InTick => /\ gets <= Len(sensor_list)
                    /\ gets = Len(taken) + timeouts)
    /\ (pc \in LoopBodyPcs) ~> (pc = "tick" \/ exc # "none")

C8_Witness ==
    /\ CollectionEnded
    /\ gets = Len(sensor_list)
    /\ timeouts = 1
    /\ pending # {}

\* C9: a get that raises Empty is handled inside the loop body: the
\* diagnostic is printed, no exception is in flight, the cleanup has not
\* been entered, and control is at the top of the loop for the next tick.
C9_PartialTickContinues ==
    [][(timeouts' = timeouts + 1) =>
          /\ pc' = "tick"
          /\ exc' = "none"
          /\ printed' = Line("    Some of the sensor information is missed", << >>)
          /\ RestoreCalls' = {}]_vars

\* two partial ticks in a row: nothing was ever saved, and the second
\* tick's collection has ended on a timeout
C9_Witness ==
    /\ CollectionEnded
    /\ frame = FoundFrame + 2
    /\ timeouts = 1
    /\ DOMAIN disk = {}

\* number of items of this tick that were acceptable when taken: in the
\* expected set and of a sensor not yet satisfied in this tick
Acceptable ==
    { j \in 1 .. Len(taken) :
        /\ taken[j].sensor_name \in ExpectedNames
        /\ \A h \in 1 .. j - 1 : taken[h].sensor_name # taken[j].sensor_name }

\* C10: a sample that is not acceptable when it is taken fills no slot of
\* the tick and is not persisted: when the collection has ended, the slots
\* consumed are as many as the acceptable samples, and every file of the
\* tick was written once.
C10_UnexpectedDiscarded ==
    CollectionEnded =>
        /\ Len(moved) = Cardinality(Acceptable)
        /\ \A n \in Satisfied : disk[FileName(n, w_frame)].writes = 1


----------------------------------------------------------------------------
(* C11 .. C20 *)

\* the files written under the frame number of the current tick
TickFiles == { f \in DOMAIN disk : f[2] = w_frame }

RECURSIVE SumWrites(_)
SumWrites(F) ==
    IF F = {} THEN 0
    ELSE LET f == CHOOSE g \in F : TRUE IN disk[f].writes + SumWrites(F \ {f})

\* how many of the samples taken in this tick have completed save_to_disk
SavedLen == IF pc = "save_to_disk" THEN Len(taken) - 1 ELSE Len(taken)

\* C11: every sample taken in a tick is saved once, before the next one is
\* taken, in the file named by the identity the sample carries and the
\* tick's frame number w_frame; an identity that is missing in the tick has
\* no file of that frame.
C11_PersistenceTagging ==
    InTick =>
        /\ SumWrites(TickFiles) = SavedLen
        /\ { f[1] : f \in TickFiles }
               = { taken[j].sensor_name : j \in 1 .. SavedLen }
        /\ \A j \in 1 .. SavedLen :
              (\A h \in j + 1 .. SavedLen :
                   taken[h].sensor_name # taken[j].sensor_name)
              => disk[FileName(taken[j].sensor_name, w_frame)].data
                     = taken[j].sensor_data
        /\ pc = "tick" =>
              \A n \in Missing : FileName(n, w_frame) \notin DOMAIN disk

\* the second sensor of the list answered alone: its file exists, the first
\* sensor's does not
C11_Witness ==
    /\ CollectionEnded
    /\ timeouts = 1
    /\ Len(taken) = 1
    /\ taken[1].sensor_name = NameOf(2)
    /\ FileName(NameOf(2), w_frame) \in DOMAIN disk
    /\ FileName(NameOf(1), w_frame) \notin DOMAIN disk

QueueItems == { sensor_queue[j] : j \in 1 .. Len(sensor_queue) }

TakenItems == { taken[j] : j \in 1 .. Len(taken) }

\* C12: the queue is first in, first out for the control thread whatever
\* the order of sensor_list: a callback appends its item at the tail, a get
\* removes the head, nothing else changes the queue, and an item is never
\* in two places (in flight, queued, taken) nor queued twice.
C12_ArrivalOrder ==
    /\ [](/\ Cardinality(QueueItems) = Len(sensor_queue)
          /\ \A q \in QueueItems :
                /\ q.sensor_data \notin pending
                /\ q \notin TakenItems
                /\ q.sensor_name = NameOf(q.sensor_data.sensor)
          /\ \A t \in TakenItems : t.sensor_data \notin pending)
    /\ [][sensor_queue' # sensor_queue =>
             \/ /\ \E d \in pending :
                      /\ sensor_queue' = Append(sensor_queue,
                                                Item(d, NameOf(d.sensor)))
                      /\ pending' = pending \ {d}
                /\ taken' = taken
             \/ /\ sensor_queue # << >>
                /\ sensor_queue' = Tail(sensor_queue)
                /\ taken' = Append(taken, Head(sensor_queue))
                /\ pending' = pending]_vars
    /\ [][taken' # taken =>
             \/ taken' = << >>
             \/ /\ sensor_queue # << >>
                /\ taken' = Append(taken, Head(sensor_queue))
                /\ sensor_queue' = Tail(sensor_queue)]_vars

\* both sensors pushed, the second of the list first, and were taken in
\* that order
C12_Witness ==
    /\ CollectionEnded
    /\ Len(taken) = 2
    /\ taken[1].sensor_name = NameOf(2)
    /\ taken[2].sensor_name = NameOf(1)
    /\ taken[1].sensor_data.frame = taken[2].sensor_data.frame


\* the try block was left from a blocked sensor_queue.get: a tick was
\* issued, no wait of it had expired, every sample taken had been saved and
\* its slot repositioned, and slots were still open
InterruptedInGet ==
    /\ pc \notin TryPcs
    /\ frame > FoundFrame
    /\ timeouts = 0
    /\ Len(moved) = Len(taken)
    /\ Len(taken) < Len(sensor_list)

\* C13: an interrupt delivered while the control thread is blocked in get
\* ends the run through the cleanup path with ' - Exited by user.' printed
\* and no exception left.
C13_ExitedByUser ==
    (InterruptedInGet /\ pc = "exit") =>
        /\ printed = Line(" - Exited by user.", << >>)
        /\ exc = "none"


\* C16: within an iteration no set_transform is called before the tick's
\* collection has completed (every slot filled, or a get timed out).
C16_CollectThenReposition ==
    (InTick /\ moved # << >>) => pc = "tick"

\* C17: whenever world.tick() is about to be called, one reference pose P
\* gives every sensor of sensor_list its current transform.
C17_RigConsistent ==
    pc = "tick" =>
        \E P \in ReferencePoses :
            \A j \in 1 .. Len(sensor_list) :
                transform[sensor_list[j].actor]
                    = get_transform(P, sensor_list[j].location_id)

\* C18: in a tick the sensors repositioned are the first m entries of
\* sensor_list, in list order and once each, m being the number of samples
\* whose loop body has completed, whatever names the samples carry; no
\* other actor's transform changes during the tick.
C18_PositionalPairing ==
    /\ [](InTick =>
            /\ Len(moved) = (IF pc \in {"save_to_disk", "set_transform"}
                             THEN Len(taken) - 1 ELSE Len(taken))
            /\ \A j \in 1 .. Len(moved) : moved[j] = sensor_list[j].actor)
    /\ [][\A k \in DOMAIN transform \cap DOMAIN transform' :
             transform'[k] # transform[k] =>
                \/ pc = "init_transform"
                \/ /\ pc = "set_transform"
                   /\ k = sensor_list[Len(moved) + 1].actor
                   /\ moved' = Append(moved, k)]_vars

\* one sample was taken, from the second sensor of the list, and the first
\* entry of the list is the one that was moved
C18_Witness ==
    /\ CollectionEnded
    /\ timeouts = 1
    /\ Len(taken) = 1
    /\ taken[1].sensor_name = NameOf(2)
    /\ moved = << sensor_list[1].actor >>
    /\ transform[1] # transform[2]

\* C19: no file is written twice: at most one sample per identity and
\* frame number is ever persisted.
C19_UniqueKey ==
    \A f \in DOMAIN disk : disk[f].writes = 1


\* some entry of the rig carries a location id without an offset
Misconfigured == \E k \in 1 .. Len(rig) : ~HasOffset(rig[k].location_id)

\* position of the first such entry
FirstUnknown ==
    CHOOSE k \in 1 .. Len(rig) :
        /\ ~HasOffset(rig[k].location_id)
        /\ \A h \in 1 .. k - 1 : HasOffset(rig[h].location_id)

\* C14: with a location id that has no entry in distance_dict, the lookup
\* fails in the initial positioning pass at the first such entry: KeyError
\* is raised there and nowhere else, the entry gets no transform from a
\* default offset, world.tick() is never called, and the finally block runs
\* its apply_settings.
C14_ConfigErrorFatal ==
    /\ [](Misconfigured =>
            /\ frame = FoundFrame
            /\ pc \notin LoopBodyPcs
            /\ pending = {}
            /\ pc = "init_transform" => i <= FirstUnknown
            /\ pc = "tick" => exc # "none"
            /\ \A k \in DOMAIN transform :
                  k >= FirstUnknown => transform[k] = DefaultTransform
            /\ (pc \in {"finally_destroy", "raised", "exit"}
                    /\ Len(sensor_list) = Len(rig))
                  => Cardinality(RestoreCalls) = 1)
    /\ [][(exc # "KeyError" /\ exc' = "KeyError") =>
             /\ Misconfigured
             /\ pc = "init_transform"
             /\ i = FirstUnknown
             /\ pc' = "finally_apply_settings"
             /\ transform' = transform]_vars
    /\ [][(Misconfigured /\ pc = "init_transform" /\ i = FirstUnknown) =>
             exc' # "none"]_vars

\* the second entry has an unknown id: the first sensor was positioned, the
\* lookup for the second raised KeyError, and the cleanup has restored the
\* settings
C14_Witness ==
    /\ Misconfigured
    /\ FirstUnknown = 2
    /\ exc = "KeyError"
    /\ pc = "finally_destroy"
    /\ transform[1] = get_transform(spawn_point, rig[1].location_id)
    /\ transform[1] # DefaultTransform
    /\ Cardinality(RestoreCalls) = 1


\* C15: for every reference pose and every location id of distance_dict,
\* get_transform returns the reference location moved along the reference
\* pose's right vector by the id's offset, with the default rotation and
\* not the reference pose's; the reference pose is left unchanged.  In
\* tenths: offsets 0, 1, 2, 3, 5, 7 for ids 0 .. 5; right is +y at yaw 0,
\* -x at yaw 90, -y at yaw 180, +x at yaw 270.
C15_PlannerResult ==
    /\ [](pc = "tick" =>
            LET ref == spawn_point
                id  == sensor_list[1].location_id
                d   == << 0, 1, 2, 3, 5, 7 >>[id + 1]
                res == transform[1]
                yaw == ref.rotation.yaw
            IN  /\ res.rotation = Rotation(0, 0, 0)
                /\ res.location.z = ref.location.z
                /\ yaw = 0   => /\ res.location.x = ref.location.x
                                /\ res.location.y = ref.location.y + d
                /\ yaw = 90  => /\ res.location.x = ref.location.x - d
                                /\ res.location.y = ref.location.y
                /\ yaw = 180 => /\ res.location.x = ref.location.x
                                /\ res.location.y = ref.location.y - d
                /\ yaw = 270 => /\ res.location.x = ref.location.x + d
                                /\ res.location.y = ref.location.y)
    /\ [][spawn_point' = spawn_point]_vars

\* reference pose at (100, 50, 3) heading 270 with id 5: the result is 7
\* tenths further along x and carries the default rotation
C15_Witness ==
    /\ pc = "tick"
    /\ spawn_point = [location |-> Vec(100, 50, 3), rotation |-> Rotation(0, 270, 0)]
    /\ sensor_list[1].location_id = 5
    /\ transform[1] = Transform(Vec(107, 50, 3))


\* samples produced and not consumed: on their way to the queue or in it
Backlog == Cardinality(pending) + Len(sensor_queue)

\* C20: with every listening sensor producing one sample per tick, the lag
\* (samples produced so far minus samples consumed) at the end of a tick's
\* collection is never below the lag at the end of the previous tick's
\* collection (lag, recorded when the tick was issued): the tick adds one
\* sample per sensor, its collection takes at most one per sensor_list
\* entry, and nothing else leaves the queue.  A lag that was positive is
\* positive for the rest of the run.
C20_LagNeverDecreases ==
    /\ [](InTick =>
            /\ Len(taken) <= Len(sensor_list)
            /\ Backlog + Len(taken) = lag + Cardinality(listening)
            /\ Backlog >= lag)
    /\ [][Backlog' < Backlog => (pc = "get" /\ Len(taken') = Len(taken) + 1)]_vars
    /\ [](lag > 0 => [](lag > 0 /\ Backlog > 0))

\* the second tick collected one sample per entry and the lag left by the
\* first tick is still there
C20_Witness ==
    /\ CollectionEnded
    /\ frame = FoundFrame + MaxTicks
    /\ Len(taken) = Len(sensor_list)
    /\ lag > 0
    /\ Backlog = lag

====
